---- MODULE Spec2Model ----
(***************************************************************************)
(* Voice Ingest (src/main.py): a main thread that loads the processed-set, *)
(* sweeps the watch directory at startup and then every POLL_INTERVAL, and *)
(* a watchdog observer thread that dispatches created/moved events to      *)
(* AudioFileHandler.  Both threads run process_file on the same in-memory  *)
(* set `processed` and the same state file.                                *)
(***************************************************************************)
EXTENDS Integers, Sequences, FiniteSets, TLC

\* ---------------------------------------------------------------- bounds
\* Writes by the environment during one run: entries created, files appended to.
MaxCreates == 2
\* Watch events that may wait in the observer's queue.
MaxEvents == 1
\* Process crashes (kill -9 / power loss) followed by a restart.
MaxCrashes == 1

\* ------------------------------------------------------------- constants
\* MIN_FILE_AGE = int(os.getenv("MIN_FILE_AGE", "5")); run here with the
\* environment setting MIN_FILE_AGE=1 (one clock tick).
MIN_FILE_AGE == 1

\* The names a directory entry can have, in the order sorted() gives them.
Names == <<"a.m4a", "b.WAV", "n.txt">>
NameSet == {Names[i] : i \in 1..Len(Names)}

Suffix(n) ==
    CASE n = "a.m4a" -> ".m4a"
      [] n = "b.WAV" -> ".WAV"
      [] n = "n.txt" -> ".txt"
      [] OTHER -> ""

\* str.lower() on the suffixes that occur.
Lower(s) ==
    CASE s = ".WAV" -> ".wav"
      [] s = ".M4A" -> ".m4a"
      [] OTHER -> s

AUDIO_EXTENSIONS == {".m4a", ".ogg", ".wav", ".mp3", ".opus", ".flac", ".wma"}

\* path.suffix.lower() in AUDIO_EXTENSIONS
IsAudio(n) == Lower(Suffix(n)) \in AUDIO_EXTENSIONS

AudioNames == {n \in NameSet : IsAudio(n)}

Threads == {"main", "obs"}

\* ------------------------------------------------------------ state file
\* What STATE_FILE can hold.  "doc" is a JSON object {"processed": [...],
\* "updated": ...}; "nokey" a JSON object without "processed"; "text" is
\* not JSON; "array" is valid JSON that is not an object; "badlist" is an
\* object whose "processed" is a number; "partial" is a file that was
\* opened for writing (truncated) and not yet written and closed.
Missing == [form |-> "missing", names |-> <<>>]
Partial == [form |-> "partial", names |-> <<>>]

\* sorted(S): the members of S in the order of Names.
Sorted(S) == SelectSeq(Names, LAMBDA n : n \in S)

\* set(list)
ToSet(list) == {list[i] : i \in 1..Len(list)}

\* json.dumps({"processed": sorted(processed), "updated": ...})
Doc(S) == [form |-> "doc", names |-> Sorted(S)]

InitialStateFiles ==
    { Missing,
      [form |-> "text", names |-> <<>>],
      [form |-> "array", names |-> <<>>],
      Doc({"a.m4a"}) }

\* load_state(): the returned set, or the exception that escapes it.
\* json.loads of an empty or cut-off file raises JSONDecodeError (caught);
\* list.get raises AttributeError and set(5) raises TypeError (not caught).
LoadState(file) ==
    CASE file.form = "missing" -> [raised |-> "none", value |-> {}]
      [] file.form = "doc"     -> [raised |-> "none", value |-> ToSet(file.names)]
      [] file.form = "nokey"   -> [raised |-> "none", value |-> {}]
      [] file.form = "text"    -> [raised |-> "none", value |-> {}]
      [] file.form = "partial" -> [raised |-> "none", value |-> {}]
      [] file.form = "array"   -> [raised |-> "AttributeError", value |-> {}]
      [] OTHER                 -> [raised |-> "TypeError", value |-> {}]

\* The filenames a reader of the state file finds recorded in it.
Persisted(file) == IF file.form = "doc" THEN ToSet(file.names) ELSE {}

\* ------------------------------------------------------------------ STT
\* Transcript texts are sequences of characters; " " is whitespace.
IsSpace(c) == c = " "

RECURSIVE LStrip(_)
LStrip(s) == IF s # <<>> /\ IsSpace(Head(s)) THEN LStrip(Tail(s)) ELSE s

RECURSIVE RStrip(_)
RStrip(s) ==
    IF s # <<>> /\ IsSpace(s[Len(s)]) THEN RStrip(SubSeq(s, 1, Len(s) - 1)) ELSE s

Strip(s) == RStrip(LStrip(s))

\* What requests.post to STT_URL can produce: a transport error, or a
\* response with a status and a body.  Body "notjson" does not parse,
\* "array" parses to a list, "object" parses to a dict whose text field
\* is `text` (hasText = FALSE: no "text" key).
SttResponses ==
    { [transport |-> FALSE, status |-> 200, body |-> "object", hasText |-> TRUE,  text |-> <<" ", "x", " ">>],
      [transport |-> FALSE, status |-> 200, body |-> "object", hasText |-> TRUE,  text |-> <<" ">>],
      [transport |-> FALSE, status |-> 200, body |-> "object", hasText |-> TRUE,  text |-> <<>>],
      [transport |-> FALSE, status |-> 200, body |-> "object", hasText |-> FALSE, text |-> <<>>],
      [transport |-> FALSE, status |-> 200, body |-> "notjson", hasText |-> FALSE, text |-> <<>>],
      [transport |-> FALSE, status |-> 200, body |-> "array",  hasText |-> FALSE, text |-> <<>>],
      [transport |-> FALSE, status |-> 500, body |-> "object", hasText |-> TRUE,  text |-> <<"x">>],
      [transport |-> TRUE,  status |-> 0,   body |-> "notjson", hasText |-> FALSE, text |-> <<>>] }

\* None, the failure value of transcribe().
NoResult == <<>>

\* transcribe() without the .strip() on the text field.
TranscribeNoStrip(kind, resp) ==
    IF kind = "none" THEN [raised |-> "FileNotFoundError", text |-> NoResult]
    ELSE IF kind = "dir" THEN [raised |-> "IsADirectoryError", text |-> NoResult]
    ELSE IF resp.transport THEN [raised |-> "none", text |-> NoResult]
    ELSE IF resp.status >= 400 THEN [raised |-> "none", text |-> NoResult]
    ELSE IF resp.body = "notjson" THEN [raised |-> "none", text |-> NoResult]
    ELSE IF resp.body = "array" THEN [raised |-> "AttributeError", text |-> NoResult]
    ELSE LET text == IF resp.hasText THEN resp.text ELSE <<>>
         IN  [raised |-> "none", text |-> IF text = <<>> THEN NoResult ELSE text]

\* transcribe(): [raised, text]; text = NoResult is the None return.
Transcribe(kind, resp) ==
    IF kind = "none" THEN [raised |-> "FileNotFoundError", text |-> NoResult]
    ELSE IF kind = "dir" THEN [raised |-> "IsADirectoryError", text |-> NoResult]
    ELSE IF resp.transport THEN [raised |-> "none", text |-> NoResult]
    ELSE IF resp.status >= 400 THEN [raised |-> "none", text |-> NoResult]
    ELSE IF resp.body = "notjson" THEN [raised |-> "none", text |-> NoResult]
    ELSE IF resp.body = "array" THEN [raised |-> "AttributeError", text |-> NoResult]
    ELSE LET text == Strip(IF resp.hasText THEN resp.text ELSE <<>>)
         IN  [raised |-> "none", text |-> IF text = <<>> THEN NoResult ELSE text]

\* -------------------------------------------------------------- webhook
\* HTTP status of the webhook response; 0 stands for a transport error.
WebhookStatuses == {0, 200, 202, 204, 503}

\* send_to_openclaw(): True iff the status is 200 or 202.
SendToOpenclaw(status) == status \in {200, 202}

\* ---------------------------------------------------------- process_file
\* The guard dropped: every presented file is taken as new.
AlreadyProcessedNever(f, p) == FALSE

\* filename in processed (the guard at the top of process_file)
AlreadyProcessed(f, p) == f \in p

\* The comparison off by one: a file exactly MIN_FILE_AGE old is still new.
TooNewInclusive(age) == age <= MIN_FILE_AGE

\* file_age < MIN_FILE_AGE
TooNew(age) == age < MIN_FILE_AGE

\* processed.add(filename)
Marked(p, f) == p \cup {f}

\* The success test dropped: the file is marked whatever the webhook said.
AfterDeliveryAlwaysMark(success) == "pf_add"

\* if success: mark, save, delete, return True; else: return False
AfterDelivery(success) == IF success THEN "pf_add" ELSE "return"

\* DELETE_AFTER gates the unlink; an unlink of an entry that is not a
\* regular file, or one the OS refuses, raises OSError, which is logged.
UnlinkRemoves(deleteAfter_, kind, osAllows) ==
    deleteAfter_ /\ kind = "file" /\ osAllows

\* ------------------------------------------------------------------ state
VARIABLES
    disk,             \* WATCH_DIR: name -> [kind, age]; age saturates at MIN_FILE_AGE
    stateFile,        \* content of STATE_FILE
    processed,        \* the set shared by main() and AudioFileHandler
    deleteAfter,      \* DELETE_AFTER
    config,           \* STT_URL, OPENCLAW_URL, OPENCLAW_HOOK_TOKEN ("" when not set)
    pc,               \* where each thread is
    cur,              \* audio_path.name of the process_file call of each thread
    result,           \* result["text"] of that call
    buf,              \* the text json.dumps built for write_text, per thread
    todo,             \* what is left of sorted(WATCH_DIR.iterdir()) in the sweep
    events,           \* the observer's event queue
    sleepLeft,        \* ticks left of the handler's time.sleep(MIN_FILE_AGE)
    observerStarted,  \* observer.start() has run
    proc,             \* "running", "exited" (uncaught exception in main), "down" (crash)
    exc,              \* the uncaught exception that ended a thread: <<function, type>>
    creates,          \* environment writes so far (entries created, files appended to)
    crashes,          \* crashes so far
    okCount,          \* history: times send_to_openclaw returned True, per filename
    loaded,           \* history: what load_state returned in this process
    unlinked,         \* history: files this program deleted
    recorded,         \* history: filenames a completed save_state has written
    deferred          \* history: files a sweep skipped as too new, unmodified and
                      \*          not attempted since

vars == <<disk, stateFile, processed, deleteAfter, config, pc, cur, result, buf, todo,
          events, sleepLeft, observerStarted, proc, exc, creates, crashes,
          okCount, loaded, unlinked, recorded, deferred>>

envVars == <<disk, events, sleepLeft, creates>>
histVars == <<okCount, loaded, unlinked, recorded, deferred>>

\* okCount stops counting here.
MaxCount == 2

NoEntry == [kind |-> "none", age |-> 0]
NoExc == <<>>

\* A freshly started process: main() at its first line, observer not running.
FreshPc == [t \in Threads |-> IF t = "main" THEN "validate" ELSE "off"]

\* The environments main() can be started in.
Configs ==
    [STT_URL : {"", "http://stt"},
     OPENCLAW_URL : {"", "http://openclaw"},
     OPENCLAW_HOOK_TOKEN : {"", "secret"}]

\* The token test forgotten.
ConfigErrorNoToken(cfg) ==
    IF cfg.STT_URL = "" THEN "STT_URL is required"
    ELSE IF cfg.OPENCLAW_URL = "" THEN "OPENCLAW_URL is required"
    ELSE ""

\* The validation at the top of main(): the error it logs before
\* sys.exit(1), or "" when the configuration is complete.
ConfigError(cfg) ==
    IF cfg.STT_URL = "" THEN "STT_URL is required"
    ELSE IF cfg.OPENCLAW_URL = "" THEN "OPENCLAW_URL is required"
    ELSE IF cfg.OPENCLAW_HOOK_TOKEN = "" THEN "OPENCLAW_HOOK_TOKEN is required"
    ELSE ""

Init ==
    /\ disk = [n \in NameSet |-> NoEntry]
    /\ stateFile \in InitialStateFiles
    /\ processed = {}
    /\ deleteAfter \in BOOLEAN
    /\ config \in Configs
    /\ pc = FreshPc
    /\ cur = [t \in Threads |-> ""]
    /\ result = [t \in Threads |-> NoResult]
    /\ buf = [t \in Threads |-> {}]
    /\ todo = <<>>
    /\ events = <<>>
    /\ sleepLeft = 0
    /\ observerStarted = FALSE
    /\ proc = "running"
    /\ exc = [t \in Threads |-> NoExc]
    /\ creates = 0
    /\ crashes = 0
    /\ okCount = [n \in AudioNames |-> 0]
    /\ loaded = {}
    /\ unlinked = {}
    /\ recorded = {}
    /\ deferred = {}

\* Where a thread continues when process_file returns: the for loop of
\* process_existing, or the observer's dispatch loop.
Ret(t) == IF t = "main" THEN "sweep_next" ELSE "idle"

Goto(t, label) == pc' = [pc EXCEPT ![t] = label]

\* process_file (or the handler) returns to its caller.
Finish(t) ==
    /\ Goto(t, Ret(t))
    /\ cur' = [cur EXCEPT ![t] = ""]
    /\ result' = [result EXCEPT ![t] = NoResult]
    /\ UNCHANGED <<proc, exc>>

\* An exception nobody catches (SystemExit from sys.exit included): it ends
\* the thread; in the main thread it ends the process (the observer threads
\* are daemon threads).
Raise(t, where, type) ==
    /\ Goto(t, "dead")
    /\ exc' = [exc EXCEPT ![t] = <<where, type>>]
    /\ proc' = IF t = "main" THEN "exited" ELSE proc
    /\ UNCHANGED <<cur, result>>

\* Thread t is about to run the step at label. While the signal handler
\* sits in observer.join() the main thread is held inside the handler and
\* only the observer thread moves.
Running(t, label) ==
    /\ pc[t] = label
    /\ proc = "running" \/ (proc = "stopping" /\ t = "obs")

\* if filename in processed: return False
PfCheck(t) ==
    /\ Running(t, "pf_check")
    /\ IF AlreadyProcessed(cur[t], processed)
         THEN Finish(t)
         ELSE Goto(t, "pf_stat") /\ UNCHANGED <<cur, result, proc, exc>>
    /\ UNCHANGED <<stateFile, processed, deleteAfter, config, buf, todo, observerStarted,
                   crashes, envVars, histVars>>

\* file_age = time.time() - audio_path.stat().st_mtime; too new: return False
PfStat(t) ==
    /\ Running(t, "pf_stat")
    /\ LET e == disk[cur[t]]
       IN  IF e.kind = "none" THEN Raise(t, "process_file", "FileNotFoundError")
           ELSE IF TooNew(e.age) THEN Finish(t)
           ELSE Goto(t, "pf_transcribe") /\ UNCHANGED <<cur, result, proc, exc>>
    /\ deferred' = LET e == disk[cur[t]]
                   IN  IF e.kind = "none" THEN deferred
                       ELSE IF TooNew(e.age)
                         THEN (IF t = "main" THEN deferred \cup {cur[t]} ELSE deferred)
                       ELSE deferred \ {cur[t]}
    /\ UNCHANGED <<stateFile, processed, deleteAfter, config, buf, todo, observerStarted,
                   crashes, envVars, okCount, loaded, unlinked, recorded>>

\* result = transcribe(audio_path); if not result: return False
PfTranscribe(t) ==
    /\ Running(t, "pf_transcribe")
    /\ \E resp \in SttResponses :
         LET r == Transcribe(disk[cur[t]].kind, resp)
         IN  IF r.raised # "none" THEN Raise(t, "transcribe", r.raised)
             ELSE IF r.text = NoResult THEN Finish(t)
             ELSE /\ Goto(t, "pf_deliver")
                  /\ result' = [result EXCEPT ![t] = r.text]
                  /\ UNCHANGED <<cur, proc, exc>>
    /\ UNCHANGED <<stateFile, processed, deleteAfter, config, buf, todo, observerStarted,
                   crashes, envVars, histVars>>

\* stat = audio_path.stat(); success = send_to_openclaw(result["text"], metadata)
PfDeliver(t) ==
    /\ Running(t, "pf_deliver")
    /\ IF disk[cur[t]].kind = "none"
         THEN Raise(t, "process_file", "FileNotFoundError") /\ UNCHANGED okCount
         ELSE \E status \in WebhookStatuses :
                LET success == SendToOpenclaw(status)
                    f == cur[t]
                IN  /\ okCount' = IF success /\ okCount[f] < MaxCount
                                    THEN [okCount EXCEPT ![f] = @ + 1]
                                    ELSE okCount
                    /\ IF AfterDelivery(success) = "pf_add"
                         THEN Goto(t, "pf_add") /\ UNCHANGED <<cur, result, proc, exc>>
                         ELSE Finish(t)
    /\ UNCHANGED <<stateFile, processed, deleteAfter, config, buf, todo, observerStarted,
                   crashes, envVars, loaded, unlinked, recorded, deferred>>

\* processed.add(filename)
PfAdd(t) ==
    /\ Running(t, "pf_add")
    /\ processed' = Marked(processed, cur[t])
    /\ Goto(t, "save_dump")
    /\ UNCHANGED <<stateFile, deleteAfter, config, cur, result, buf, todo, observerStarted,
                   proc, exc, crashes, envVars, histVars>>

\* save_state: json.dumps({"processed": sorted(processed), ...}) is
\* evaluated before write_text is entered.
SaveDump(t) ==
    /\ Running(t, "save_dump")
    /\ buf' = [buf EXCEPT ![t] = processed]
    /\ Goto(t, "save_open")
    /\ UNCHANGED <<stateFile, processed, deleteAfter, config, cur, result, todo,
                   observerStarted, proc, exc, crashes, envVars, histVars>>

\* write_text opens STATE_FILE with mode "w", which truncates it; mkdir or
\* open may fail with OSError, which save_state and process_file let through.
SaveOpen(t) ==
    /\ Running(t, "save_open")
    /\ \E ioOk \in BOOLEAN :
         IF ioOk
           THEN /\ stateFile' = Partial
                /\ Goto(t, "save_write")
                /\ UNCHANGED <<cur, result, proc, exc>>
           ELSE /\ Raise(t, "save_state", "OSError")
                /\ UNCHANGED stateFile
    /\ UNCHANGED <<processed, deleteAfter, config, buf, todo, observerStarted, crashes,
                   envVars, histVars>>

\* write_text writes the text and closes the file.
SaveWrite(t) ==
    /\ Running(t, "save_write")
    /\ stateFile' = Doc(buf[t])
    /\ buf' = [buf EXCEPT ![t] = {}]
    /\ recorded' = recorded \cup Persisted(Doc(buf[t]))
    /\ Goto(t, "pf_unlink")
    /\ UNCHANGED <<processed, deleteAfter, config, cur, result, todo, observerStarted,
                   proc, exc, crashes, envVars, okCount, loaded, unlinked, deferred>>

\* if DELETE_AFTER: try audio_path.unlink() except OSError: log; return True
PfUnlink(t) ==
    /\ Running(t, "pf_unlink")
    /\ \E osAllows \in (IF deleteAfter THEN BOOLEAN ELSE {TRUE}) :
         LET f == cur[t]
         IN  IF UnlinkRemoves(deleteAfter, disk[f].kind, osAllows)
               THEN /\ disk' = [disk EXCEPT ![f] = NoEntry]
                    /\ unlinked' = unlinked \cup {f}
               ELSE UNCHANGED <<disk, unlinked>>
    /\ Finish(t)
    /\ UNCHANGED <<stateFile, processed, deleteAfter, config, buf, todo, observerStarted,
                   crashes, events, sleepLeft, creates, okCount, loaded, recorded, deferred>>

ProcessFile(t) ==
    \/ PfCheck(t) \/ PfStat(t) \/ PfTranscribe(t) \/ PfDeliver(t) \/ PfAdd(t)
    \/ SaveDump(t) \/ SaveOpen(t) \/ SaveWrite(t) \/ PfUnlink(t)

\* ------------------------------------------------------------ main thread
\* if not STT_URL: ... sys.exit(1), and the same for the other two settings.
\* sys.exit raises SystemExit, which ends main() and the process.
Validate ==
    /\ Running("main", "validate")
    /\ IF ConfigError(config) # ""
         THEN Raise("main", "main", "SystemExit(1)")
         ELSE Goto("main", "load") /\ UNCHANGED <<cur, result, proc, exc>>
    /\ UNCHANGED <<stateFile, processed, deleteAfter, config, buf, todo,
                   observerStarted, crashes, envVars, histVars>>

\* processed = load_state()
Load ==
    /\ Running("main", "load")
    /\ LET r == LoadState(stateFile)
       IN  IF r.raised # "none"
             THEN Raise("main", "load_state", r.raised) /\ UNCHANGED <<processed, loaded>>
             ELSE /\ processed' = r.value
                  /\ loaded' = r.value
                  /\ Goto("main", "sweep_list")
                  /\ UNCHANGED <<cur, result, proc, exc>>
    /\ UNCHANGED <<stateFile, deleteAfter, config, buf, todo, observerStarted, crashes,
                   envVars, okCount, unlinked, recorded, deferred>>

\* process_existing: sorted(WATCH_DIR.iterdir()), at startup and each time
\* time.sleep(POLL_INTERVAL) returns.
ListDir ==
    /\ proc = "running"
    /\ pc["main"] \in {"sweep_list", "sleep"}
    /\ todo' = Sorted({n \in NameSet : disk[n].kind # "none"})
    /\ Goto("main", "sweep_next")
    /\ UNCHANGED <<stateFile, processed, deleteAfter, config, cur, result, buf,
                   observerStarted, proc, exc, crashes, envVars, histVars>>

\* if path.is_file() and path.suffix.lower() in AUDIO_EXTENSIONS
IsCandidate(kind, n) == kind = "file" /\ IsAudio(n)

\* One turn of the for loop; after the last one process_existing returns,
\* to the observer set-up (startup) or to the sleep of the while loop.
SweepNext ==
    /\ Running("main", "sweep_next")
    /\ IF todo = <<>>
         THEN /\ Goto("main", IF observerStarted THEN "sleep" ELSE "start_observer")
              /\ UNCHANGED <<todo, cur>>
         ELSE LET p == Head(todo)
              IN  /\ todo' = Tail(todo)
                  /\ IF IsCandidate(disk[p].kind, p)
                       THEN /\ cur' = [cur EXCEPT !["main"] = p]
                            /\ Goto("main", "pf_check")
                       ELSE UNCHANGED <<pc, cur>>
    /\ UNCHANGED <<stateFile, processed, deleteAfter, config, result, buf, observerStarted,
                   proc, exc, crashes, envVars, histVars>>

\* observer.schedule(handler, ...); observer.start()
StartObserver ==
    /\ Running("main", "start_observer")
    /\ observerStarted' = TRUE
    /\ pc' = [pc EXCEPT !["main"] = "sleep", !["obs"] = "idle"]
    /\ UNCHANGED <<stateFile, processed, deleteAfter, config, cur, result, buf, todo,
                   proc, exc, crashes, envVars, histVars>>

\* -------------------------------------------------------- observer thread
\* Every handler reading event.src_path.
EventPathSrc(e) == e.src_path

\* on_created reads event.src_path, on_moved reads event.dest_path.
EventPath(e) == IF e.type = "created" THEN e.src_path ELSE e.dest_path

\* if event.is_directory: return; if path.suffix.lower() in AUDIO_EXTENSIONS
Handles(e) == ~e.is_directory /\ IsAudio(EventPath(e))

\* The observer thread takes the next event and calls on_created/on_moved,
\* which returns at once or starts time.sleep(MIN_FILE_AGE).
Dispatch ==
    /\ Running("obs", "idle")
    /\ proc = "running"
    /\ events # <<>>
    /\ LET e == Head(events)
       IN  /\ events' = Tail(events)
           /\ IF Handles(e)
                THEN /\ cur' = [cur EXCEPT !["obs"] = EventPath(e)]
                     /\ sleepLeft' = MIN_FILE_AGE
                     /\ Goto("obs", "debounce")
                ELSE UNCHANGED <<pc, cur, sleepLeft>>
    /\ UNCHANGED <<disk, creates, stateFile, processed, deleteAfter, config, result, buf,
                   todo, observerStarted, proc, exc, crashes, histVars>>

\* The sleep is over: if path.exists(): process_file(path, self.processed)
Debounced ==
    /\ Running("obs", "debounce")
    /\ sleepLeft = 0
    /\ IF disk[cur["obs"]].kind # "none"
         THEN Goto("obs", "pf_check") /\ UNCHANGED <<cur, result, proc, exc>>
         ELSE Finish("obs")
    /\ UNCHANGED <<stateFile, processed, deleteAfter, config, buf, todo, observerStarted,
                   crashes, envVars, histVars>>

\* ------------------------------------------------------------ environment
\* The polling observer reports an entry that appears while it runs.
Notify(e) ==
    IF observerStarted /\ pc["obs"] # "dead"
      THEN Len(events) < MaxEvents /\ events' = Append(events, e)
      ELSE UNCHANGED events

Event(type, src, dest, isDir) ==
    [type |-> type, src_path |-> src, dest_path |-> dest, is_directory |-> isDir]

\* Something writes a new file or makes a directory in WATCH_DIR.
Create(n, kind) ==
    /\ proc = "running"
    /\ creates < MaxCreates
    /\ disk[n].kind = "none"
    /\ disk' = [disk EXCEPT ![n] = [kind |-> kind, age |-> 0]]
    /\ creates' = creates + 1
    /\ Notify(Event("created", n, "", kind = "dir"))
    /\ UNCHANGED <<sleepLeft, stateFile, processed, deleteAfter, config, pc, cur, result,
                   buf, todo, observerStarted, proc, exc, crashes, histVars>>

\* A sync client that wrote under a temporary, non-audio name renames the
\* file to its audio name n (the file keeps its mtime).
Rename(m, n) ==
    /\ proc = "running"
    /\ ~IsAudio(m) /\ IsAudio(n)
    /\ disk[m].kind = "file"
    /\ disk[n].kind = "none"
    /\ \A t \in Threads : cur[t] # m
    /\ disk' = [disk EXCEPT ![n] = disk[m], ![m] = NoEntry]
    /\ Notify(Event("moved", m, n, FALSE))
    /\ UNCHANGED <<sleepLeft, creates, stateFile, processed, deleteAfter, config, pc, cur,
                   result, buf, todo, observerStarted, proc, exc, crashes, histVars>>

\* A writer appends to a file that is still being synced: its mtime is now.
\* The sweep's earlier look at the file no longer counts as a deferral.
Touch(n) ==
    /\ proc = "running"
    /\ IsAudio(n)
    /\ disk[n].kind = "file"
    /\ disk[n].age > 0
    /\ creates < MaxCreates
    /\ creates' = creates + 1
    /\ disk' = [disk EXCEPT ![n].age = 0]
    /\ deferred' = deferred \ {n}
    /\ UNCHANGED <<events, sleepLeft, stateFile, processed, deleteAfter, config,
                   pc, cur, result, buf, todo, observerStarted, proc, exc, crashes,
                   okCount, loaded, unlinked, recorded>>

\* One unit of time passes.
Tick ==
    /\ proc \in {"running", "stopping"}
    /\ \/ sleepLeft > 0
       \/ \E n \in NameSet : disk[n].kind # "none" /\ disk[n].age < MIN_FILE_AGE
    /\ disk' = [n \in NameSet |->
                  IF disk[n].kind # "none" /\ disk[n].age < MIN_FILE_AGE
                    THEN [disk[n] EXCEPT !.age = @ + 1]
                    ELSE disk[n]]
    /\ sleepLeft' = IF sleepLeft > 0 THEN sleepLeft - 1 ELSE 0
    /\ UNCHANGED <<events, creates, stateFile, processed, deleteAfter, config, pc, cur,
                   result, buf, todo, observerStarted, proc, exc, crashes, histVars>>

Environment ==
    \/ \E n \in NameSet : Create(n, "file")
    \/ \E n \in AudioNames : Create(n, "dir")
    \/ \E m, n \in NameSet : Rename(m, n)
    \/ \E n \in NameSet : Touch(n)
    \/ Tick

\* -------------------------------------------------------------- the program
Next ==
    \/ Validate
    \/ Load
    \/ ListDir
    \/ SweepNext
    \/ StartObserver
    \/ Dispatch
    \/ Debounced
    \/ \E t \in Threads : ProcessFile(t)
    \/ Environment

Spec == Init /\ [][Next]_vars

\* ------------------------------------------------------ crash and restart
\* The process is killed (SIGKILL, power loss): its threads stop where they
\* are; the directory and the state file stay as they are.
Crash ==
    /\ proc = "running"
    /\ crashes < MaxCrashes
    /\ proc' = "down"
    /\ crashes' = crashes + 1
    /\ UNCHANGED <<stateFile, processed, deleteAfter, config, pc, cur, result, buf, todo,
                   observerStarted, exc, envVars, histVars>>

\* The supervisor starts the program again: main() runs from the top.
Restart ==
    /\ proc = "down"
    /\ proc' = "running"
    /\ processed' = {}
    /\ pc' = FreshPc
    /\ cur' = [t \in Threads |-> ""]
    /\ result' = [t \in Threads |-> NoResult]
    /\ buf' = [t \in Threads |-> {}]
    /\ todo' = <<>>
    /\ events' = <<>>
    /\ sleepLeft' = 0
    /\ observerStarted' = FALSE
    /\ exc' = [t \in Threads |-> NoExc]
    /\ loaded' = {}
    /\ deferred' = {}
    /\ UNCHANGED <<disk, stateFile, deleteAfter, config, creates, crashes, okCount, unlinked,
                   recorded>>

NextCrash == Next \/ Crash \/ Restart

SpecCrash == Init /\ [][NextCrash]_vars

\* ----------------------------------------------------------------- shutdown
\* SIGTERM or SIGINT arrives once the handlers are registered (right after
\* observer.start()). The handler runs in the main thread, wherever that
\* thread is: observer.stop(), then observer.join(), which waits for the
\* event handler the observer thread is in.
Signal ==
    /\ proc = "running"
    /\ observerStarted
    /\ proc' = "stopping"
    /\ UNCHANGED <<stateFile, processed, deleteAfter, config, pc, cur, result, buf, todo,
                   observerStarted, exc, crashes, envVars, histVars>>

\* observer.join() has returned: sys.exit(0) raises SystemExit in the main
\* thread at the point the signal interrupted it.
Exit ==
    /\ proc = "stopping"
    /\ pc["obs"] \in {"idle", "dead"}
    /\ Raise("main", "shutdown", "SystemExit(0)")
    /\ UNCHANGED <<stateFile, processed, deleteAfter, config, buf, todo,
                   observerStarted, crashes, envVars, histVars>>

NextSignal == Next \/ Signal \/ Exit

SpecSignal == Init /\ [][NextSignal]_vars

\* ================================================================= claims
PfLabels == {"pf_check", "pf_stat", "pf_transcribe", "pf_deliver", "pf_add",
             "save_dump", "save_open", "save_write", "pf_unlink"}

\* A call of process_file is in progress in thread t.
InProcessFile(t) == pc[t] \in PfLabels

Delivered == {f \in AudioNames : okCount[f] > 0}

\* C1: send_to_openclaw returns success at most once per filename, whatever
\* the interleaving of the startup sweep, the periodic sweeps and the watch
\* events.
C1_AtMostOneDelivery == \A f \in AudioNames : okCount[f] <= 1

\* C2: process_file on a filename that is already in the processed set
\* returns at its first step: the call ends there (so it made no
\* transcription and no delivery call), and the directory, the state file,
\* the processed set and the delivery history are as they were.
C2_ProcessedIsSkipped ==
    [][\A t \in Threads :
         (pc[t] = "pf_check" /\ cur[t] \in processed /\ pc'[t] # pc[t])
           => /\ pc'[t] = Ret(t)
              /\ UNCHANGED <<disk, stateFile, processed, buf, okCount, unlinked,
                             recorded>>]_vars

\* C2 witness: process_file has been called on a stable file that is on disk
\* and whose name is in the processed set.
C2_Witness ==
    \E t \in Threads :
        /\ pc[t] = "pf_check"
        /\ cur[t] \in processed
        /\ disk[cur[t]].kind = "file"
        /\ ~TooNew(disk[cur[t]].age)

\* C3: when send_to_openclaw fails, then at the return of that attempt the
\* file is still on disk and its filename is neither in the processed set
\* nor in the state file.
C3_FailedDeliveryLeavesFile ==
    [][\A t \in Threads :
         (pc[t] = "pf_deliver" /\ pc'[t] = Ret(t))
           => /\ disk'[cur[t]].kind = "file"
              /\ cur[t] \notin processed'
              /\ cur[t] \notin Persisted(stateFile')]_vars

\* C4: when transcribe returns None, then at the return of that attempt the
\* file is still on disk and its filename is neither in the processed set
\* nor in the state file (the attempt ends there: no delivery call).
C4_FailedTranscriptionLeavesFile ==
    [][\A t \in Threads :
         (pc[t] = "pf_transcribe" /\ pc'[t] = Ret(t))
           => /\ disk'[cur[t]].kind = "file"
              /\ cur[t] \notin processed'
              /\ cur[t] \notin Persisted(stateFile')]_vars

\* C5: a filename is in the processed set only if it was loaded from the
\* state file at startup or a delivery for it has returned success, and no
\* step of the program removes a filename from the processed set.
C5_ProcessedSetInvariant ==
    /\ [](processed \subseteq (loaded \cup Delivered))
    /\ [][processed \subseteq processed']_vars

\* C5 witness: the processed set holds a loaded name and a delivered one.
C5_Witness ==
    /\ "a.m4a" \in loaded
    /\ okCount["a.m4a"] = 0
    /\ okCount["b.WAV"] = 1
    /\ processed = {"a.m4a", "b.WAV"}

\* C6: whenever the program has deleted a source file, its filename is in
\* the persisted state (stated for the states in which no write of the
\* state file is under way).
C6_DeletedIsPersisted ==
    (\A t \in Threads : pc[t] # "save_write") => unlinked \subseteq Persisted(stateFile)

\* C7: after a crash and a restart, load_state returns every filename whose
\* delivery had succeeded (stated for the filenames whose record a
\* save_state had completely written before the crash).
C7_RestartKeepsDelivered ==
    (crashes > 0 /\ proc = "running" /\ pc["main"] = "sweep_list")
        => (Delivered \cap recorded) \subseteq processed

\* C8: a crash during save_state leaves the state file with its complete
\* old or its complete new content, never a partial file.
C8_CrashLeavesNoPartialFile == proc = "down" => stateFile.form # "partial"

\* C9: load_state never raises, whatever the state file holds.
C9_LoadNeverRaises == ~(exc["main"] # NoExc /\ exc["main"][1] = "load_state")

\* C10: in no state are two calls of process_file in progress, one in the
\* observer thread and one in the main loop.
C10_SingleWorker == ~(InProcessFile("main") /\ InProcessFile("obs"))

\* C11: in every call of process_file, the step that reads the file's age
\* returns at once, with the directory, the store and the delivery history
\* unchanged, when the age is below MIN_FILE_AGE (no transcription, delivery,
\* store write or deletion in that call), and goes on to transcribe when the
\* age is at least MIN_FILE_AGE.
C11_AgeGate ==
    [][\A t \in Threads :
         (pc[t] = "pf_stat" /\ pc'[t] # pc[t] /\ disk[cur[t]].kind = "file")
           => IF disk[cur[t]].age < MIN_FILE_AGE
                THEN /\ pc'[t] = Ret(t)
                     /\ UNCHANGED <<disk, stateFile, processed, buf, okCount,
                                    unlinked, recorded>>
                ELSE /\ pc'[t] = "pf_transcribe"
                     /\ cur'[t] = cur[t]]_vars

\* C11 witness: process_file is about to read the age of an unprocessed file
\* that is younger than MIN_FILE_AGE.
C11_Witness ==
    \E t \in Threads :
        /\ pc[t] = "pf_stat"
        /\ disk[cur[t]].kind = "file"
        /\ disk[cur[t]].age < MIN_FILE_AGE
        /\ cur[t] \notin processed

\* C12: no error of one candidate's processing ends the sweep, the polling
\* loop or the watcher: no thread is ever ended by an exception raised in
\* process_file or in what it calls.
C12_ErrorsContained ==
    \A t \in Threads : exc[t] = NoExc \/ exc[t][1] \in {"main", "load_state"}

\* C13: an I/O error in save_state does not end the process or the watcher:
\* no thread is ever ended by an exception raised in save_state.
C13_SaveFailureNotFatal ==
    \A t \in Threads : ~(exc[t] # NoExc /\ exc[t][1] = "save_state")

\* C15: when STT_URL, OPENCLAW_URL or OPENCLAW_HOOK_TOKEN is missing, main()
\* never gets past its validation: it ends with sys.exit(1), the state is
\* never loaded, nothing is transcribed or delivered and the observer is
\* never started.
C15_ConfigGate ==
    (config.STT_URL = "" \/ config.OPENCLAW_URL = "" \/ config.OPENCLAW_HOOK_TOKEN = "")
        => /\ pc["main"] \in {"validate", "dead"}
           /\ pc["main"] = "dead"
                => proc = "exited" /\ exc["main"] = <<"main", "SystemExit(1)">>
           /\ loaded = {} /\ processed = {} /\ Delivered = {}
           /\ \A t \in Threads : result[t] = NoResult /\ cur[t] = ""
           /\ ~observerStarted /\ pc["obs"] = "off"

\* C15 witness: main() has ended on a missing OPENCLAW_HOOK_TOKEN while an
\* audio file waits in the directory.
C15_Witness ==
    /\ config.STT_URL # "" /\ config.OPENCLAW_URL # ""
    /\ config.OPENCLAW_HOOK_TOKEN = ""
    /\ proc = "exited"
    /\ \E f \in AudioNames : disk[f].kind = "file"

\* C14: when the process exits on a termination signal, the state file is
\* not half written and the file the main loop was working on is not in the
\* in-memory set without being in the state file.
C14_CleanExit ==
    exc["main"] = <<"shutdown", "SystemExit(0)">>
        => /\ stateFile.form # "partial"
           /\ cur["main"] \in processed => cur["main"] \in Persisted(stateFile)

\* C16: as long as a stable audio file that is not in the processed set
\* stays in the watch directory, the main loop that re-attempts it on every
\* sweep is still running: it has not been ended by an exception raised
\* while a file was being processed.
C16_RetryLoopAlive ==
    ~ /\ proc = "exited"
      /\ exc["main"][1] \in {"process_file", "transcribe", "send_to_openclaw", "save_state"}
      /\ \E f \in AudioNames :
           /\ disk[f].kind = "file"
           /\ disk[f].age >= MIN_FILE_AGE
           /\ f \notin processed

\* C17: a file that a sweep skipped as too new, that has since reached
\* MIN_FILE_AGE unmodified and is still in the directory, is not left
\* behind unprocessed by a main loop that ended while working on another file.
C17_DeferredIsProcessed ==
    ~ /\ proc = "exited"
      /\ exc["main"][1] \in {"process_file", "transcribe", "send_to_openclaw", "save_state"}
      /\ \E f \in deferred :
           /\ f # cur["main"]
           /\ disk[f].kind = "file"
           /\ disk[f].age >= MIN_FILE_AGE
           /\ f \notin processed

\* C18: the observer thread answers a created or moved event for a
\* non-directory audio path by sleeping MIN_FILE_AGE on that path, and any
\* other event by doing nothing; it enters process_file only from that sleep,
\* once the sleep is over and only if the path exists; inside process_file
\* the age check still sends a too-new file back without any effect.
C18_Debounce ==
    [][/\ (pc["obs"] = "idle" /\ events # <<>> /\ events' = Tail(events))
            => LET e == Head(events)
                   path == IF e.type = "moved" THEN e.dest_path ELSE e.src_path
               IN  IF ~e.is_directory /\ Lower(Suffix(path)) \in AUDIO_EXTENSIONS
                     THEN /\ pc'["obs"] = "debounce"
                          /\ cur'["obs"] = path
                          /\ sleepLeft' = MIN_FILE_AGE
                     ELSE /\ pc'["obs"] = "idle"
                          /\ UNCHANGED <<cur, disk, stateFile, processed, okCount>>
       /\ (pc'["obs"] = "pf_check" /\ pc["obs"] # "pf_check")
            => /\ pc["obs"] = "debounce"
               /\ sleepLeft = 0
               /\ cur'["obs"] = cur["obs"]
               /\ disk[cur["obs"]].kind # "none"
       /\ (pc["obs"] = "debounce" /\ pc'["obs"] # "debounce")
            => /\ sleepLeft = 0
               /\ disk[cur["obs"]].kind = "none" => pc'["obs"] = "idle"
       /\ (pc["obs"] = "pf_stat" /\ pc'["obs"] # "pf_stat"
             /\ disk[cur["obs"]].kind = "file"
             /\ disk[cur["obs"]].age < MIN_FILE_AGE)
            => /\ pc'["obs"] = "idle"
               /\ UNCHANGED <<disk, stateFile, processed, okCount>>
       /\ (pc'["obs"] = "pf_transcribe" /\ pc["obs"] # "pf_transcribe")
            => /\ pc["obs"] = "pf_stat"
               /\ disk[cur["obs"]].age >= MIN_FILE_AGE]_vars

\* C18 witness: the handler's sleep is over and process_file is at its age
\* check for a file that is too new again (it was appended to during the
\* sleep).
C18_Witness ==
    /\ pc["obs"] = "pf_stat"
    /\ disk[cur["obs"]].kind = "file"
    /\ disk[cur["obs"]].age < MIN_FILE_AGE
    /\ sleepLeft = 0

\* C19: send_to_openclaw is only reached with the transcript the transcribe
\* call of the same process_file invocation returned: it is stripped and
\* has a non-whitespace character; a new invocation starts without one.
C19_DeliveryHasTranscript ==
    \A t \in Threads :
        /\ pc[t] = "pf_deliver"
             => /\ result[t] # NoResult
                /\ \E i \in 1..Len(result[t]) : result[t][i] # " "
                /\ result[t][1] # " " /\ result[t][Len(result[t])] # " "
        /\ pc[t] \in {"pf_check", "pf_stat", "pf_transcribe"} => result[t] = NoResult

\* C19 witness: a thread is about to deliver a transcript the STT server
\* sent with surrounding whitespace.
C19_Witness ==
    \E t \in Threads : pc[t] = "pf_deliver" /\ result[t] # NoResult

\* C20: whenever no process_file invocation is under way in either thread
\* and no thread has been ended by an exception, the filenames in the state
\* file are those of the in-memory processed set.
C20_StoreMatchesMemory ==
    (/\ proc = "running"
     /\ pc["main"] \notin {"validate", "load"}
     /\ \A t \in Threads : ~InProcessFile(t) /\ exc[t] = NoExc)
        => Persisted(stateFile) = processed

====
